---- MODULE Spec2Model ----
(***************************************************************************)
(* Crystal Grimoire backends.                                              *)
(*                                                                         *)
(* Spec      the unified server (src/backend/unified_backend.py): the      *)
(*           bearer-token dependency, the document store and every route,  *)
(*           one action per request handler.                               *)
(* SpecLLM   LLMService.generate_response as a function of tier, pinned    *)
(*           provider and configured vendors.                              *)
(* SpecDemo  the demo servers (src/backend/demo_backend.py and             *)
(*           demo_backend_alt.py): horoscope lookup, identification and    *)
(*           guidance.                                                     *)
(* SpecUsage identify requests of the unified server interleaved at their  *)
(*           await points, for the usage counter.                          *)
(* SpecParse identify_crystal's parsing of the vendor text into the        *)
(*           response, as a function of the text.                          *)
(* SpecSave  saves of the unified server interleaved around the store      *)
(*           write that runs in a worker thread.                           *)
(***************************************************************************)
EXTENDS Integers, Sequences, FiniteSets, TLC

VARIABLES
    config,     \* class Config: which environment credentials are set
    db,         \* firebase_service.db is not None
    profiles,   \* store: users/{uid}
    saved,      \* store: users/{uid}/saved_crystals/{identification_id}
    usage,      \* store: users/{uid}/usage/{today}.crystal_identifications
    savedOk,    \* history: identification ids whose save answered success
    last,       \* the last request of the unified server and its response
    llm,        \* SpecLLM: one generate_response call
    demo,       \* SpecDemo: one demo-server request
    requests,   \* SpecUsage, SpecSave: the requests in flight
    parsing     \* SpecParse: one vendor text and the response built from it

vars ==
    <<config, db, profiles, saved, usage, savedOk, last, llm, demo, requests,
      parsing>>

(***************************************************************************)
(* Bounds                                                                  *)
(***************************************************************************)
MaxUsage == 2

Users == {"u1", "u2"}
Ids == {"c1", "c2"}
Names == {"Amethyst"}

(***************************************************************************)
(* Enumerations and configuration                                          *)
(***************************************************************************)
SubscriptionTier == {"free", "premium", "pro", "founders"}

LLMProvider == {"openai", "anthropic", "google"}

\* Config: TRUE where the environment variable is set (bool(os.getenv(..)));
\* FIREBASE_CREDENTIALS is TRUE when the certificate at
\* FIREBASE_CREDENTIALS_PATH is there and loads.
Config ==
    [FIREBASE_CREDENTIALS : BOOLEAN, OPENAI_API_KEY : BOOLEAN, ANTHROPIC_API_KEY : BOOLEAN,
     GOOGLE_AI_API_KEY : BOOLEAN, HOROSCOPE_API_KEY : BOOLEAN,
     STRIPE_SECRET_KEY : BOOLEAN, STRIPE_PREMIUM_PRICE_ID : BOOLEAN,
     STRIPE_PRO_PRICE_ID : BOOLEAN]

(***************************************************************************)
(* Text.  A string is a sequence of one-character strings, so that case    *)
(* conversion and substring search are computed, not assumed.              *)
(***************************************************************************)
LowerCase ==
    <<"a", "b", "c", "d", "e", "f", "g", "h", "i", "j", "k", "l",
      "m", "n", "o", "p", "q", "r", "s", "t", "u", "v", "w", "x",
      "y", "z">>

UpperCase ==
    <<"A", "B", "C", "D", "E", "F", "G", "H", "I", "J", "K", "L",
      "M", "N", "O", "P", "Q", "R", "S", "T", "U", "V", "W", "X",
      "Y", "Z">>

IsUpper(c) == \E k \in 1..Len(UpperCase) : UpperCase[k] = c
IsLower(c) == \E k \in 1..Len(LowerCase) : LowerCase[k] = c

lower_char(c) ==
    IF IsUpper(c) THEN LowerCase[CHOOSE k \in 1..Len(UpperCase) : UpperCase[k] = c]
    ELSE c

upper_char(c) ==
    IF IsLower(c) THEN UpperCase[CHOOSE k \in 1..Len(LowerCase) : LowerCase[k] = c]
    ELSE c

\* str.lower()
lower(s) == [k \in 1..Len(s) |-> lower_char(s[k])]

\* str.upper()
upper(s) == [k \in 1..Len(s) |-> upper_char(s[k])]

\* str.title(): a letter is upper-cased after a non-letter (or at the start)
\* and lower-cased after a letter.
title(s) ==
    [k \in 1..Len(s) |->
        IF k = 1 \/ ~(IsUpper(s[k - 1]) \/ IsLower(s[k - 1]))
        THEN upper_char(s[k]) ELSE lower_char(s[k])]

\* Python's  sub in s
Contains(sub, s) ==
    \E k \in 0..(Len(s) - Len(sub)) : SubSeq(s, k + 1, k + Len(sub)) = sub

(***************************************************************************)
(* LLMService                                                              *)
(***************************************************************************)
\* Provider selection by tier alone, without the availability flags.
SelectProvider_unchecked(tier, provider, cfg) ==
    IF provider # "none" THEN provider
    ELSE IF tier = "pro" THEN "anthropic"
    ELSE IF tier = "premium" THEN "openai"
    ELSE IF cfg.GOOGLE_AI_API_KEY THEN "google"
    ELSE "none"

\* generate_response, lines 180-187: the provider the call settles on;
\* "none" is Python's None.
SelectProvider(tier, provider, cfg) ==
    IF provider # "none" THEN provider
    ELSE IF tier = "pro" /\ cfg.ANTHROPIC_API_KEY THEN "anthropic"
    ELSE IF tier = "premium" /\ cfg.OPENAI_API_KEY THEN "openai"
    ELSE IF cfg.GOOGLE_AI_API_KEY THEN "google"
    ELSE "none"

\* The model name each vendor binding sends.
ModelFor(provider, tier) ==
    CASE provider = "openai" ->
            IF tier \in {"pro", "founders"} THEN "gpt-4-turbo-preview"
            ELSE "gpt-3.5-turbo"
      [] provider = "anthropic" ->
            IF tier = "founders" THEN "claude-3-opus-20240229"
            ELSE "claude-3-sonnet-20240229"
      [] provider = "google" -> "gemini-1.5-flash"
      [] OTHER -> "none"

\* What the vendor exchange does: it answers with text or raises (transport
\* error, non-2xx status, unexpected response shape).
VendorOutcomes == {"ok", "raise"}

\* A provider argument that is none of the three members of LLMProvider
InvalidProvider == "other"

\* generate_response with a second attempt: when the vendor exchange fails
\* and Google is configured, Google is asked as well.
generate_response_retry(tier, provider, cfg, outcome) ==
    LET p == SelectProvider(tier, provider, cfg) IN
    IF p = "none"
    THEN [status |-> 503, provider |-> "none", model |-> "none", calls |-> 0]
    ELSE IF p \notin LLMProvider
    THEN [status |-> 500, provider |-> p, model |-> "none", calls |-> 0]
    ELSE IF outcome = "ok"
    THEN [status |-> 200, provider |-> p, model |-> ModelFor(p, tier), calls |-> 1]
    ELSE IF cfg.GOOGLE_AI_API_KEY
    THEN [status |-> 500, provider |-> "google", model |-> ModelFor("google", tier),
          calls |-> 2]
    ELSE [status |-> 500, provider |-> p, model |-> ModelFor(p, tier), calls |-> 1]

\* generate_response: 503 when no provider is selected; otherwise one vendor
\* request, and whatever is raised inside the try (the vendor exchange
\* failing, or the 400 of the final else for a provider that is none of the
\* three) leaves as 500.
generate_response(tier, provider, cfg, outcome) ==
    LET p == SelectProvider(tier, provider, cfg) IN
    IF p = "none"
    THEN [status |-> 503, provider |-> "none", model |-> "none", calls |-> 0]
    ELSE IF p \notin LLMProvider
    THEN [status |-> 500, provider |-> p, model |-> "none", calls |-> 0]
    ELSE [status |-> IF outcome = "ok" THEN 200 ELSE 500,
          provider |-> p, model |-> ModelFor(p, tier), calls |-> 1]

(***************************************************************************)
(* The document store and the profile model                                *)
(***************************************************************************)
NoDoc == [exists |-> FALSE, id |-> "", tier |-> "", stripe_customer_id |-> ""]

\* UserProfile(id=user_id, email=.., name=..): every other field at its default
DefaultProfile(uid) ==
    [exists |-> TRUE, id |-> uid, tier |-> "free", stripe_customer_id |-> "none"]

\* A subscription_tier value the enumeration does not have
UnknownTier == "gold"

\* Documents users/{uid} another writer (console, billing job) may have left:
\* none, one per tier, and one whose tier is not in the enumeration
StoredProfiles(uid) ==
    {NoDoc} \cup
    {[exists |-> TRUE, id |-> uid, tier |-> t,
      stripe_customer_id |-> IF t = "free" THEN "none" ELSE "cus"] :
        t \in SubscriptionTier \cup {UnknownTier}}

NoEntry ==
    [exists |-> FALSE, identification_id |-> "", user_id |-> "", name |-> "",
     main_color |-> "", user_notes |-> ""]

\* Where the store may raise during one request
Faults == {"none", "profile_read", "profile_write", "op"}

\* FirebaseService.get_user_profile: None (NoDoc) without a store handle, on a
\* missing document, on a read error and on a document UserProfile rejects.
get_user_profile(uid, fault) ==
    IF ~db THEN NoDoc
    ELSE IF fault = "profile_read" THEN NoDoc
    ELSE IF profiles[uid].exists
         THEN IF profiles[uid].tier \in SubscriptionTier THEN profiles[uid] ELSE NoDoc
         ELSE NoDoc

(***************************************************************************)
(* The bearer-token dependency                                             *)
(***************************************************************************)
\* Authorization header: absent, not starting with "Bearer ", a token the
\* identity provider rejects (expired, forged), or a token it verifies.
\* uid is the subject the token names ("" when there is no token).
Headers ==
    {[kind |-> k, uid |-> ""] : k \in {"absent", "not_bearer"}}
    \cup {[kind |-> k, uid |-> u] : k \in {"rejected", "valid"}, u \in Users}

\* A request's header together with where the store raises while serving it
\* (the store is only touched for a valid token)
Callers == {c \in Headers \X Faults : c[1].kind = "valid" \/ c[2] = "none"}

Unauthorized(stored, wrote) ==
    [status |-> 401, user |-> NoDoc, profiles |-> stored, prof_write |-> wrote]

\* get_current_user with the token decoded but its verification result
\* ignored: a rejected token is served like a valid one.
get_current_user_unverified(h, fault) ==
    IF h.kind \in {"absent", "not_bearer"} THEN Unauthorized(profiles, 0)
    ELSE LET user_profile == get_user_profile(h.uid, fault) IN
         IF user_profile.exists
         THEN [status |-> 200, user |-> user_profile, profiles |-> profiles,
               prof_write |-> 0]
         ELSE IF ~db THEN Unauthorized(profiles, 0)
         ELSE IF fault = "profile_write" THEN Unauthorized(profiles, 0)
         ELSE Unauthorized([profiles EXCEPT ![h.uid] = DefaultProfile(h.uid)], 1)

\* get_current_user.  A first-time caller's profile is written with the
\* synchronous document set(), whose WriteResult is then awaited (line 390):
\* the write lands, the await raises TypeError and the blanket except answers
\* 401.  Without a store handle firebase_service.db.collection raises
\* AttributeError in the same place.
get_current_user(h, fault) ==
    IF h.kind \in {"absent", "not_bearer"} THEN Unauthorized(profiles, 0)
    ELSE IF h.kind = "rejected" THEN Unauthorized(profiles, 0)
    ELSE LET user_profile == get_user_profile(h.uid, fault) IN
         IF user_profile.exists
         THEN [status |-> 200, user |-> user_profile, profiles |-> profiles,
               prof_write |-> 0]
         ELSE IF ~db THEN Unauthorized(profiles, 0)
         ELSE IF fault = "profile_write" THEN Unauthorized(profiles, 0)
         ELSE Unauthorized([profiles EXCEPT ![h.uid] = DefaultProfile(h.uid)], 1)

(***************************************************************************)
(* identify_crystal: from the vendor's text to the response                *)
(***************************************************************************)
\* What generate_response hands back: the vendor's text (a str), or None
\* when the vendor's JSON has null where its text should be.
Str(chars) == [kind |-> "str", chars |-> chars]
NoneText == [kind |-> "null", chars |-> <<>>]

\* A response field that is not in the body
Absent == [kind |-> "absent", chars |-> <<>>]

NL == "\n"

Whitespace == {" ", NL, "\t"}

\* str.startswith
startswith(s, prefix) ==
    Len(s) >= Len(prefix) /\ SubSeq(s, 1, Len(prefix)) = prefix

\* str.strip()
RECURSIVE strip(_)
strip(s) ==
    IF s = <<>> THEN s
    ELSE IF Head(s) \in Whitespace THEN strip(Tail(s))
    ELSE IF s[Len(s)] \in Whitespace THEN strip(SubSeq(s, 1, Len(s) - 1))
    ELSE s

\* str.split(sep) for a one-character separator: at least one piece
RECURSIVE split(_, _)
split(s, sep) ==
    IF \A k \in 1..Len(s) : s[k] # sep THEN <<s>>
    ELSE LET k == CHOOSE i \in 1..Len(s) :
                     s[i] = sep /\ \A j \in 1..(i - 1) : s[j] # sep
         IN  <<SubSeq(s, 1, k - 1)>> \o split(SubSeq(s, k + 1, Len(s)), sep)

\* line.split(":", 1)[1]: what follows the first colon
after_colon(line) ==
    LET k == CHOOSE i \in 1..Len(line) :
                 line[i] = ":" /\ \A j \in 1..(i - 1) : line[j] # ":"
    IN  SubSeq(line, k + 1, Len(line))

\* [p.strip() for p in line.split(":", 1)[1].split(",")]
stripped_items(line) ==
    LET items == split(after_colon(line), ",") IN
    [k \in 1..Len(items) |-> strip(items[k])]

UNKNOWN_CRYSTAL == <<"U", "n", "k", "n", "o", "w", "n", " ", "C", "r", "y", "s", "t", "a", "l">>
LABEL_CRYSTAL_NAME == <<"c", "r", "y", "s", "t", "a", "l", " ", "n", "a", "m", "e", ":">>
LABEL_NAME == <<"n", "a", "m", "e", ":">>
LABEL_DESCRIPTION == <<"d", "e", "s", "c", "r", "i", "p", "t", "i", "o", "n", ":">>
LABEL_PROPERTIES == <<"m", "e", "t", "a", "p", "h", "y", "s", "i", "c", "a", "l", " ", "p", "r", "o", "p", "e", "r", "t", "i", "e", "s", ":">>
LABEL_CHAKRAS == <<"c", "h", "a", "k", "r", "a", "s", ":">>
LABEL_HEALING == <<"h", "e", "a", "l", "i", "n", "g", " ", "a", "p", "p", "l", "i", "c", "a", "t", "i", "o", "n", "s", ":">>

\* A first line shorter than this may serve as the name
NAME_LIMIT == 100

\* identify_crystal, lines 466-478: the if/elif chain applied to each line
\* in turn, from line k on; a later line overrides an earlier one.
RECURSIVE parse_lines(_, _, _)
parse_lines(lines, k, parsed) ==
    IF k > Len(lines) THEN parsed
    ELSE LET line == lines[k]
             low == lower(line)
         IN  parse_lines(lines, k + 1,
               IF startswith(low, LABEL_CRYSTAL_NAME)
               THEN [parsed EXCEPT !.name = strip(after_colon(line))]
               ELSE IF startswith(low, LABEL_NAME)
               THEN [parsed EXCEPT !.name = strip(after_colon(line))]
               ELSE IF startswith(low, LABEL_DESCRIPTION)
               THEN [parsed EXCEPT !.description = strip(after_colon(line))]
               ELSE IF startswith(low, LABEL_PROPERTIES)
               THEN [parsed EXCEPT !.properties = stripped_items(line)]
               ELSE IF startswith(low, LABEL_CHAKRAS)
               THEN [parsed EXCEPT !.chakras = stripped_items(line)]
               ELSE IF startswith(low, LABEL_HEALING)
               THEN [parsed EXCEPT !.healing_applications = stripped_items(line)]
               ELSE parsed)

NoDetails ==
    [present |-> FALSE, name |-> <<>>, description |-> <<>>, properties |-> <<>>,
     chakras |-> <<>>, healing_applications |-> <<>>]

\* identify_crystal, lines 459-497, for a str: crystal_details, or None
\* (NoDetails) when neither a name nor a list was found.
crystal_details_of(response) ==
    LET lines == split(response, NL)
        parsed == parse_lines(lines, 1,
                     [NoDetails EXCEPT !.name = UNKNOWN_CRYSTAL,
                                       !.description = response])
        first_line == strip(lines[1])
        parsed_name ==
            IF parsed.name = UNKNOWN_CRYSTAL /\ Len(first_line) < NAME_LIMIT
            THEN first_line ELSE parsed.name
    IN  IF \/ parsed_name # UNKNOWN_CRYSTAL
           \/ parsed.properties # <<>> \/ parsed.chakras # <<>>
           \/ parsed.healing_applications # <<>>
        THEN [parsed EXCEPT
                !.present = TRUE,
                !.name = parsed_name,
                !.description =
                    IF parsed.description # response THEN parsed.description
                    ELSE IF Len(lines) > 1 /\ parsed_name = strip(lines[1])
                         THEN lines[2] ELSE response]
        ELSE NoDetails

NoIdentification ==
    [status |-> 0, identification_raw |-> Absent, identification |-> Absent,
     crystal_details |-> NoDetails]

\* The parsing step without its try/except: None has no split.
identification_unguarded(response) ==
    IF response.kind # "str" THEN [NoIdentification EXCEPT !.status = 500]
    ELSE LET crystal_details == crystal_details_of(response.chars) IN
         IF crystal_details.present
         THEN [NoIdentification EXCEPT !.status = 200,
                    !.identification_raw = response,
                    !.crystal_details = crystal_details]
         ELSE [NoIdentification EXCEPT !.status = 200,
                    !.identification = response]

\* identify_crystal, lines 453-518: the parsing step inside try/except (an
\* exception, as None.split raises, leaves crystal_details None) and the
\* two response formats.
identification(response) ==
    LET crystal_details ==
            IF response.kind = "str" THEN crystal_details_of(response.chars)
            ELSE NoDetails
    IN  IF crystal_details.present
        THEN [NoIdentification EXCEPT !.status = 200,
                   !.identification_raw = response,
                   !.crystal_details = crystal_details]
        ELSE [NoIdentification EXCEPT !.status = 200,
                   !.identification = response]

(***************************************************************************)
(* Requests and responses                                                  *)
(***************************************************************************)
NoServices ==
    [firebase |-> FALSE, openai |-> FALSE, anthropic |-> FALSE, google |-> FALSE,
     stripe |-> FALSE, horoscope |-> FALSE]

\* No horoscope data (also: data whose content the source or a vendor chose)
NoData == [sign |-> "", lucky_crystal |-> "", lucky_numbers |-> <<>>]

\* No request yet; also the shape of every request/response record: the
\* request (route, auth, uid, arg, fault), the status, the tier of the profile
\* the dependency handed over, what the handler did
\* (calls to the vendor, the horoscope source, the payment provider; store
\* reads and writes) and the payload; success is the value under the body's
\* "success" key, "absent" when the body has no such key; given is what the
\* dependencies did while the request was served.
Idle ==
    [route |-> "none", auth |-> "absent", uid |-> "", arg |-> "", fault |-> "none",
     status |-> 0, prof_write |-> 0, tier |-> "", llm |-> 0, vendor |-> "none",
     horoscope |-> 0, stripe |-> 0, usage_inc |-> 0, coll_read |-> 0,
     coll_write |-> 0, coll |-> {}, body |-> "none", success |-> "absent",
     services |-> NoServices, given |-> <<>>, data |-> NoData,
     identified |-> NoIdentification, usage_remaining |-> -1, model |-> "none",
     sent_user_id |-> "none"]

Request(route, h, arg, fault) ==
    [Idle EXCEPT !.route = route, !.auth = h.kind, !.uid = h.uid, !.arg = arg,
                 !.fault = fault]

\* The dependency raised 401: the handler body does not run.
AuthFailed(rq, a) ==
    /\ profiles' = a.profiles
    /\ last' = [rq EXCEPT !.status = 401, !.prof_write = a.prof_write]
    /\ UNCHANGED <<saved, usage, savedOk>>

\* One request at a time: a handler runs from accepting the request to its
\* response (each store operation it makes is a single store call).  The
\* configuration and the store handle are fixed at process start.
Accept ==
    /\ last = Idle
    /\ UNCHANGED <<config, db, llm, demo, requests, parsing>>

\* A response that leaves the store alone.
Answer(rs) ==
    /\ last' = rs
    /\ UNCHANGED <<profiles, saved, usage, savedOk>>

(***************************************************************************)
(* Handlers of the unified server                                          *)
(***************************************************************************)
\* Vendor texts the unified server's identify is run with: a labelled
\* answer, free text, and None
Texts ==
    {Str(<<"N", "a", "m", "e", ":", " ", "A", "m", "e", "t", "h", "y", "s", "t">> \o <<NL>> \o <<"C", "h", "a", "k", "r", "a", "s", ":", " ", "c", "r", "o", "w", "n", ",", " ", "t", "h", "i", "r", "d", " ", "e", "y", "e">>),
     Str(<<"I", "t", " ", "l", "o", "o", "k", "s", " ", "l", "i", "k", "e", " ", "a", " ", "p", "u", "r", "p", "l", "e", " ", "s", "t", "o", "n", "e", ".">>),
     NoneText}

\* _calculate_remaining_usage: the tier's limit, whatever the stored counter.
FREE_DAILY_LIMIT == 5
PREMIUM_DAILY_LIMIT == 30
PRO_DAILY_LIMIT == 999
FOUNDERS_DAILY_LIMIT == 9999

calculate_remaining_usage(tier) ==
    CASE tier = "free" -> FREE_DAILY_LIMIT
      [] tier = "premium" -> PREMIUM_DAILY_LIMIT
      [] tier = "pro" -> PRO_DAILY_LIMIT
      [] tier = "founders" -> FOUNDERS_DAILY_LIMIT
      [] OTHER -> 0

\* A check that refuses a caller whose counter has reached a limit of one.
usage_check_enforced(tier, used) == used < 1

\* identify_crystal's daily usage check, lines 420-421: a comment and a TODO,
\* no code; every caller passes, whatever the counter.
usage_check(tier, used) == TRUE

\* An increment computed by the writer from the counter it saw earlier.
Increment_from_seen(current, seen) == seen + 1

\* firestore.Increment(1) in a merge set(): the store adds one to the field's
\* current value when it applies the write; seen, the value at the time the
\* request was accepted, plays no part.
Increment(current, seen) == current + 1

\* An update that issues the increment twice.
update_user_usage_twice(uid, fault) ==
    IF ~db \/ fault = "op" THEN usage
    ELSE [usage EXCEPT ![uid] = Increment(Increment(usage[uid], usage[uid]),
                                          usage[uid])]

\* FirebaseService.update_user_usage: the store's atomic increment of today's
\* counter; a store error is logged and swallowed.
update_user_usage(uid, fault) ==
    IF ~db \/ fault = "op" THEN usage
    ELSE [usage EXCEPT ![uid] = Increment(usage[uid], usage[uid])]

\* POST /api/crystal/identify
identify_crystal ==
    /\ Accept
    /\ \E c \in Callers, outcome \in VendorOutcomes, text \in Texts :
        LET h == c[1]
            fault == c[2]
            a == get_current_user(h, fault)
            rq == Request("identify", h, "", fault)
        IN  IF a.status # 200 THEN AuthFailed(rq, a)
            ELSE IF ~usage_check(a.user.tier, usage[a.user.id])
            THEN Answer([rq EXCEPT !.status = 429, !.tier = a.user.tier])
            ELSE LET g == generate_response(a.user.tier, "none", config, outcome)
                     rs == [rq EXCEPT !.status = g.status, !.tier = a.user.tier,
                                      !.llm = g.calls, !.vendor = g.provider,
                                      !.model = g.model]
                 IN  IF g.status # 200 THEN Answer(rs)
                     ELSE /\ usage[h.uid] < MaxUsage
                          /\ usage' = update_user_usage(a.user.id, fault)
                          /\ last' = [rs EXCEPT
                                !.usage_inc = usage'[h.uid] - usage[h.uid],
                                !.body = "identification",
                                !.identified = identification(text),
                                !.usage_remaining =
                                    calculate_remaining_usage(a.user.tier),
                                !.success = "true"]
                          /\ UNCHANGED <<profiles, saved, savedOk>>

\* POST /api/guidance/personalized
get_personalized_guidance ==
    /\ Accept
    /\ \E c \in Callers, outcome \in VendorOutcomes :
        LET h == c[1]
            fault == c[2]
            a == get_current_user(h, fault)
            rq == Request("guidance", h, "", fault)
        IN  IF a.status # 200 THEN AuthFailed(rq, a)
            ELSE LET g == generate_response(a.user.tier, "none", config, outcome)
                     rs == [rq EXCEPT !.status = g.status, !.tier = a.user.tier,
                                      !.llm = g.calls, !.vendor = g.provider,
                                      !.model = g.model]
                 IN  IF g.status # 200 THEN Answer(rs)
                     ELSE Answer([rs EXCEPT !.body = "guidance", !.success = "true"])

\* The twelve sign keys (DEMO_HOROSCOPES); the unified server has no table.
ZodiacSigns ==
    {"aries", "taurus", "gemini", "cancer", "leo", "virgo", "libra", "scorpio",
     "sagittarius", "capricorn", "aquarius", "pisces"}

\* Path parameters tried on the unified GET /api/horoscope/{zodiac_sign}
SignInputs == {"aries", "pisces", "ophiuchus"}

\* The dict of the except branch of _generate_ai_horoscope (date and text
\* left out)
Placeholder(zodiac_sign) ==
    [sign |-> zodiac_sign, lucky_crystal |-> "Clear Quartz",
     lucky_numbers |-> <<7, 14, 21>>]

\* _generate_ai_horoscope without its except branch: the vendor's failure
\* leaves the service as it is, a json.loads error as 500.
generate_ai_horoscope_uncaught(cfg, zodiac_sign, outcome, json) ==
    LET g == generate_response("free", "none", cfg, outcome) IN
    [status |-> IF g.status # 200 THEN g.status ELSE IF json THEN 200 ELSE 500,
     llm |-> g.calls, vendor |-> g.provider,
     body |-> IF g.status = 200 /\ json THEN "generated" ELSE "error",
     data |-> NoData]

\* HoroscopeService._generate_ai_horoscope: a fresh LLMService, tier FREE;
\* any exception (503, 500, json.loads) yields the fixed placeholder.
generate_ai_horoscope(cfg, zodiac_sign, outcome, json) ==
    LET g == generate_response("free", "none", cfg, outcome) IN
    [status |-> 200, llm |-> g.calls, vendor |-> g.provider,
     body |-> IF g.status = 200 /\ json THEN "generated" ELSE "placeholder",
     data |-> IF g.status = 200 /\ json THEN NoData ELSE Placeholder(zodiac_sign)]

\* HoroscopeService.get_daily_horoscope: the source when a key is configured
\* and its call succeeds, otherwise the generated horoscope.
get_daily_horoscope(cfg, zodiac_sign, source, outcome, json) ==
    IF ~cfg.HOROSCOPE_API_KEY
    THEN [horoscope |-> 0] @@ generate_ai_horoscope(cfg, zodiac_sign, outcome, json)
    ELSE IF source = "ok"
         THEN [status |-> 200, horoscope |-> 1, llm |-> 0, vendor |-> "none",
               body |-> "source", data |-> NoData]
         ELSE [horoscope |-> 1] @@ generate_ai_horoscope(cfg, zodiac_sign, outcome, json)

\* GET /api/horoscope/{zodiac_sign}: the sign goes to the service as given.
get_horoscope ==
    /\ Accept
    /\ \E c \in Callers, sign \in SignInputs,
       source \in VendorOutcomes, outcome \in VendorOutcomes, json \in BOOLEAN :
        LET h == c[1]
            fault == c[2]
            a == get_current_user(h, fault)
            rq == Request("horoscope", h, sign, fault)
        IN  IF a.status # 200 THEN AuthFailed(rq, a)
            ELSE LET d == get_daily_horoscope(config, sign, source, outcome, json)
                     rs == [rq EXCEPT !.status = d.status, !.tier = a.user.tier,
                                      !.horoscope = d.horoscope, !.llm = d.llm,
                                      !.vendor = d.vendor,
                                      !.given = <<source, outcome, json>>]
                 IN  IF d.status # 200 THEN Answer(rs)
                     ELSE Answer([rs EXCEPT !.body = d.body, !.data = d.data,
                                            !.success = "true"])

\* A listing that yields one document only.
CollectionIds_first(uid) ==
    LET ids == {i \in Ids : saved[uid][i].exists} IN
    IF ids = {} THEN {} ELSE {CHOOSE i \in ids : TRUE}

\* The identifiers of the documents a stream() of saved_crystals yields
CollectionIds(uid) == {i \in Ids : saved[uid][i].exists}

\* GET /api/crystal/collection/{user_id}
get_user_crystal_collection ==
    /\ Accept
    /\ \E c \in Callers, user_id \in Users :
        LET h == c[1]
            fault == c[2]
            a == get_current_user(h, fault)
            rq == [Request("collection", h, user_id, fault)
                      EXCEPT !.tier = a.user.tier]
        IN  IF a.status # 200 THEN AuthFailed(rq, a)
            ELSE IF user_id # a.user.id THEN Answer([rq EXCEPT !.status = 403])
            ELSE IF ~db THEN Answer([rq EXCEPT !.status = 503])
            ELSE IF fault = "op"
                 THEN Answer([rq EXCEPT !.status = 500, !.coll_read = 1])
                 ELSE Answer([rq EXCEPT !.status = 200, !.coll_read = 1,
                                       !.coll = CollectionIds(user_id),
                                       !.success = "true"])

\* A JSON body of POST /api/crystal/save: fields of SaveCrystalRequest
\* ("none" is null) and a user_id key, which is no field of the model.
SaveBody(identification_id, name, main_color, user_notes, user_id) ==
    [identification_id |-> identification_id, name |-> name,
     main_color |-> main_color, user_notes |-> user_notes, user_id |-> user_id]

\* Bodies the unified server's save is run with
SaveBodies ==
    {SaveBody(i, n, "none", "none", u) :
        i \in Ids, n \in Names, u \in Users \cup {"none"}}

\* A document that keeps the body's own user_id when it has one.
data_to_save_as_sent(user_id, request) ==
    [exists |-> TRUE, identification_id |-> request.identification_id,
     user_id |-> IF request.user_id # "none" THEN request.user_id ELSE user_id,
     name |-> request.name, main_color |-> request.main_color,
     user_notes |-> request.user_notes]

\* request.dict() with the caller's user_id stamped in (saved_at is a
\* timestamp, left out); a user_id key of the body is dropped by the model.
data_to_save(user_id, request) ==
    [exists |-> TRUE, identification_id |-> request.identification_id,
     user_id |-> user_id, name |-> request.name,
     main_color |-> request.main_color, user_notes |-> request.user_notes]

\* A write that keeps the stored value of a field the new document has null.
document_set_merging(stored, document) ==
    IF ~stored.exists THEN document
    ELSE [document EXCEPT
            !.main_color = IF document.main_color = "none"
                           THEN stored.main_color ELSE document.main_color,
            !.user_notes = IF document.user_notes = "none"
                           THEN stored.user_notes ELSE document.user_notes]

\* DocumentReference.set(data) without merge: the stored document becomes
\* data, in one store operation.
document_set(stored, document) == document

\* POST /api/crystal/save: document set() under the caller's id, keyed by the
\* request's identification_id.
save_crystal_to_collection ==
    /\ Accept
    /\ \E c \in Callers, request \in SaveBodies :
        LET h == c[1]
            fault == c[2]
            a == get_current_user(h, fault)
            identification_id == request.identification_id
            rq == [Request("save", h, identification_id, fault)
                      EXCEPT !.tier = a.user.tier,
                             !.sent_user_id = request.user_id]
        IN  IF a.status # 200 THEN AuthFailed(rq, a)
            ELSE IF ~db THEN Answer([rq EXCEPT !.status = 503])
            ELSE IF fault = "op" THEN Answer([rq EXCEPT !.status = 500])
            ELSE /\ saved' = [saved EXCEPT ![a.user.id][identification_id] =
                                document_set(@, data_to_save(a.user.id, request))]
                 /\ savedOk' = [savedOk EXCEPT ![h.uid] = @ \cup {identification_id}]
                 /\ last' = [rq EXCEPT !.status = 200, !.coll_write = 1,
                                       !.success = "true"]
                 /\ UNCHANGED <<profiles, usage>>

\* Query parameter tier of POST /api/subscription/checkout
TierInputs == {"free", "premium", "pro", "founders", "gold"}

\* create_subscription_checkout's price_id_map: its keys, and whether the
\* value under a key is set in the environment.
price_id_map(cfg) ==
    [premium |-> cfg.STRIPE_PREMIUM_PRICE_ID, pro |-> cfg.STRIPE_PRO_PRICE_ID]

\* POST /api/subscription/checkout.  The session-create call is made for every
\* key of the map; the provider rejects a null price, and any error it raises
\* becomes 400 (StripeService.create_checkout_session).
create_subscription_checkout ==
    /\ Accept
    /\ \E c \in Callers, tier \in TierInputs, outcome \in VendorOutcomes :
        LET h == c[1]
            fault == c[2]
            a == get_current_user(h, fault)
            rq == [Request("checkout", h, tier, fault)
                      EXCEPT !.tier = a.user.tier]
        IN  IF a.status # 200 THEN AuthFailed(rq, a)
            ELSE IF tier \notin DOMAIN price_id_map(config)
                 THEN Answer([rq EXCEPT !.status = 400])
            ELSE IF outcome = "ok" /\ price_id_map(config)[tier]
                 THEN Answer([rq EXCEPT !.status = 200, !.stripe = 1,
                                       !.success = "true"])
                 ELSE Answer([rq EXCEPT !.status = 400, !.stripe = 1])

\* Request bodies sent to the webhook: a JSON object (what the payment
\* provider sends, signed or not), another JSON value, bytes that are not
\* JSON, nothing.
Payloads == {"object", "array", "not_json", "empty"}

\* A receiver that takes the raw request and acknowledges whatever it holds.
webhook_response_raw(payload) == [status |-> 200, body |-> "received"]

\* stripe_webhook(request: dict): the body parameter is validated as a dict
\* before the handler is called (422 otherwise); the handler returns
\* {"received": True}.
webhook_response(payload) ==
    IF payload = "object" THEN [status |-> 200, body |-> "received"]
    ELSE [status |-> 422, body |-> "detail"]

\* POST /api/webhook/stripe: no dependency (any Authorization header, or
\* none, is ignored), no work.
stripe_webhook ==
    /\ Accept
    /\ \E h \in Headers, payload \in Payloads :
          Answer([Request("webhook", h, payload, "none") EXCEPT
                    !.status = webhook_response(payload).status,
                    !.body = webhook_response(payload).body])

\* A services map that reports the store and the payment provider as up
\* without looking.
health_services_assumed ==
    [firebase |-> TRUE,
     openai |-> config.OPENAI_API_KEY,
     anthropic |-> config.ANTHROPIC_API_KEY,
     google |-> config.GOOGLE_AI_API_KEY,
     stripe |-> TRUE,
     horoscope |-> config.HOROSCOPE_API_KEY]

\* health_check's services map: the store handle, LLMService's three
\* availability flags and bool() of the two keys.
health_services ==
    [firebase |-> db,
     openai |-> config.OPENAI_API_KEY,
     anthropic |-> config.ANTHROPIC_API_KEY,
     google |-> config.GOOGLE_AI_API_KEY,
     stripe |-> config.STRIPE_SECRET_KEY,
     horoscope |-> config.HOROSCOPE_API_KEY]

\* GET /health: no dependency, the map is built from values held in memory.
health_check ==
    /\ Accept
    /\ Answer([Idle EXCEPT !.route = "health", !.status = 200, !.body = "healthy",
                           !.services = health_services])

(***************************************************************************)
(* Spec: the unified server                                                *)
(***************************************************************************)
LLMIdle == [phase |-> "idle"]
DemoIdle == [phase |-> "idle"]
NoRequests == <<>>
ParseIdle == [phase |-> "idle"]

\* Environments the server is run in: every variable set, none set, and two
\* partial ones that between them set and unset each variable.
Environments ==
    {[OPENAI_API_KEY |-> TRUE, ANTHROPIC_API_KEY |-> TRUE,
      GOOGLE_AI_API_KEY |-> TRUE, HOROSCOPE_API_KEY |-> TRUE,
      STRIPE_SECRET_KEY |-> TRUE, STRIPE_PREMIUM_PRICE_ID |-> TRUE,
      STRIPE_PRO_PRICE_ID |-> TRUE],
     [OPENAI_API_KEY |-> FALSE, ANTHROPIC_API_KEY |-> FALSE,
      GOOGLE_AI_API_KEY |-> FALSE, HOROSCOPE_API_KEY |-> FALSE,
      STRIPE_SECRET_KEY |-> FALSE, STRIPE_PREMIUM_PRICE_ID |-> FALSE,
      STRIPE_PRO_PRICE_ID |-> FALSE],
     [OPENAI_API_KEY |-> FALSE, ANTHROPIC_API_KEY |-> FALSE,
      GOOGLE_AI_API_KEY |-> TRUE, HOROSCOPE_API_KEY |-> FALSE,
      STRIPE_SECRET_KEY |-> TRUE, STRIPE_PREMIUM_PRICE_ID |-> TRUE,
      STRIPE_PRO_PRICE_ID |-> FALSE],
     [OPENAI_API_KEY |-> TRUE, ANTHROPIC_API_KEY |-> TRUE,
      GOOGLE_AI_API_KEY |-> FALSE, HOROSCOPE_API_KEY |-> TRUE,
      STRIPE_SECRET_KEY |-> FALSE, STRIPE_PREMIUM_PRICE_ID |-> FALSE,
      STRIPE_PRO_PRICE_ID |-> TRUE]}

\* A deployment: an environment, with or without a store certificate
Deployments ==
    {[FIREBASE_CREDENTIALS |-> b] @@ e : e \in Environments, b \in BOOLEAN}

\* FirebaseService.__init__: the handle is there when the certificate loads
\* and the client is built, None when that raises.
FirebaseService_init(cfg) == cfg.FIREBASE_CREDENTIALS

Init ==
    /\ config \in Deployments
    /\ db = FirebaseService_init(config)
    /\ profiles \in [Users -> UNION {StoredProfiles(u) : u \in Users}]
    /\ \A u \in Users : profiles[u] \in StoredProfiles(u)
    /\ saved = [u \in Users |-> [i \in Ids |-> NoEntry]]
    /\ usage = [u \in Users |-> 0]
    /\ savedOk = [u \in Users |-> {}]
    /\ last = Idle
    /\ llm = LLMIdle
    /\ demo = DemoIdle
    /\ requests = NoRequests
    /\ parsing = ParseIdle

\* The response has left the server; the next request is taken.
Deliver ==
    /\ last # Idle
    /\ last' = Idle
    /\ UNCHANGED <<config, db, llm, demo, requests, parsing, profiles, saved,
                   usage, savedOk>>

Next ==
    \/ identify_crystal
    \/ get_personalized_guidance
    \/ get_horoscope
    \/ get_user_crystal_collection
    \/ save_crystal_to_collection
    \/ create_subscription_checkout
    \/ stripe_webhook
    \/ health_check
    \/ Deliver

Spec == Init /\ [][Next]_vars

(***************************************************************************)
(* Properties of the unified server (Spec)                                 *)
(***************************************************************************)
ProtectedRoutes ==
    {"identify", "guidance", "horoscope", "collection", "save", "checkout"}

\* C1: once a save by user U with identification_id I has answered success,
\* the entry stays in U's collection and every later successful collection
\* list by U contains I, whatever requests come in between.
C1_SavedEntryListed ==
    /\ \A u \in Users : \A i \in savedOk[u] :
          saved[u][i].exists /\ saved[u][i].identification_id = i
    /\ (last.route = "collection" /\ last.status = 200)
          => savedOk[last.uid] \subseteq last.coll

C1_Witness ==
    /\ last.route = "collection" /\ last.status = 200
    /\ savedOk[last.uid] = Ids
    /\ \E v \in Users \ {last.uid} : savedOk[v] # {} /\ usage[v] > 0

\* C2 (as claimed): a collection list by a caller with a valid token and a
\* stored profile, for another user's id, is answered 403 without reading
\* the collection, also when the store handle is unavailable.
C2_ForbiddenBeforeStoreCheck ==
    (/\ last.route = "collection" /\ last.auth = "valid"
     /\ last.arg # last.uid /\ last.fault = "none"
     /\ last.prof_write = 0 /\ profiles[last.uid].exists)
        => (last.status = 403 /\ last.coll_read = 0)

\* C3: on every bearer-protected route a request without a header, with a
\* header that is not a bearer header, or with a token the identity provider
\* rejects is answered 401 and the handler body does not run: no vendor,
\* horoscope-source or payment call, no store read or write.
C3_UnauthenticatedRejected ==
    [][(/\ last' # Idle
        /\ last'.route \in ProtectedRoutes
        /\ last'.auth \in {"absent", "not_bearer", "rejected"})
          => (/\ last'.status = 401
              /\ last'.llm = 0 /\ last'.horoscope = 0 /\ last'.stripe = 0
              /\ last'.usage_inc = 0 /\ last'.coll_read = 0
              /\ last'.coll_write = 0 /\ last'.prof_write = 0
              /\ UNCHANGED <<profiles, saved, usage, savedOk>>)]_vars

C3_Witness ==
    /\ last.route = "identify" /\ last.auth = "rejected" /\ last.status = 401
    /\ db /\ profiles[last.uid].exists /\ config.GOOGLE_AI_API_KEY
    /\ usage[last.uid] = 0

\* C4 (as claimed): a request with a valid token whose uid has no stored
\* profile (store available, no store error) is not answered 401, and the
\* store then holds the default free-tier profile for that uid.
C4_FirstRequestAuthenticated ==
    [][(/\ last' # Idle /\ last'.route \in ProtectedRoutes
        /\ last'.auth = "valid" /\ last'.fault = "none"
        /\ db /\ ~profiles[last'.uid].exists)
          => (/\ last'.status # 401
              /\ profiles'[last'.uid] = DefaultProfile(last'.uid))]_vars

\* A tier with no configured price identifier: not a key of the price map,
\* or a key whose price id is unset.
NoConfiguredPrice(tier) ==
    \/ tier \notin DOMAIN price_id_map(config)
    \/ ~price_id_map(config)[tier]

\* C7 (as claimed): a checkout by an authenticated caller for a tier with no
\* configured price identifier is answered 400 and makes no session-create
\* call.
C7_UnconfiguredTierNoCall ==
    (/\ last.route = "checkout" /\ last.status # 401
     /\ NoConfiguredPrice(last.arg))
        => (last.status = 400 /\ last.stripe = 0)

\* C9 (as claimed): a horoscope request by an authenticated caller for a sign
\* outside the twelve is answered 400 and calls neither the horoscope source
\* nor a vendor.
C9_UnknownSignRejected ==
    (/\ last.route = "horoscope" /\ last.status # 401
     /\ last.arg \notin ZodiacSigns)
        => (last.status = 400 /\ last.horoscope = 0 /\ last.llm = 0)

\* C12: each flag of the /health services map is true exactly when its
\* credential is configured (store certificate, the three vendor keys, the
\* payment key, the horoscope key), and serving /health calls no vendor, no
\* horoscope source, no payment provider and does not touch the store.
C12_HealthFlagsMirrorCredentials ==
    [][(last' # Idle /\ last'.route = "health")
          => (/\ last'.status = 200
              /\ last'.services.firebase = config.FIREBASE_CREDENTIALS
              /\ last'.services.openai = config.OPENAI_API_KEY
              /\ last'.services.anthropic = config.ANTHROPIC_API_KEY
              /\ last'.services.google = config.GOOGLE_AI_API_KEY
              /\ last'.services.stripe = config.STRIPE_SECRET_KEY
              /\ last'.services.horoscope = config.HOROSCOPE_API_KEY
              /\ last'.llm = 0 /\ last'.horoscope = 0 /\ last'.stripe = 0
              /\ last'.coll_read = 0 /\ last'.coll_write = 0
              /\ last'.prof_write = 0 /\ last'.usage_inc = 0
              /\ UNCHANGED <<profiles, saved, usage, savedOk>>)]_vars

C12_Witness ==
    /\ last.route = "health" /\ last.status = 200
    /\ last.services.firebase /\ last.services.stripe
    /\ last.services.google /\ ~last.services.openai
    /\ ~last.services.horoscope
    /\ \E u \in Users : usage[u] > 0

\* C15 (as claimed): the tier of every profile handed to a handler or
\* written to the store is one of the four, and a request whose stored
\* profile has a tier outside the four is answered with an error while the
\* stored document is left as it is.
C15_UnknownTierNotCoerced ==
    [][(/\ last' # Idle /\ last'.route \in ProtectedRoutes
        /\ last'.auth = "valid" /\ last'.fault = "none")
          => (/\ last'.status # 401 => last'.tier \in SubscriptionTier
              /\ last'.prof_write = 1
                    => profiles'[last'.uid].tier \in SubscriptionTier
              /\ (db /\ profiles[last'.uid].exists
                     /\ profiles[last'.uid].tier \notin SubscriptionTier)
                    => (/\ last'.status >= 400
                        /\ profiles'[last'.uid] = profiles[last'.uid]))]_vars

C17_EveryResponseHasSuccess ==
    last # Idle => last.success \in {"true", "false"}

\* C18: for an authenticated caller the horoscope route always answers 200
\* with success true: the source's data when a key is configured and the
\* call succeeds; otherwise vendor-generated data when a vendor is selected,
\* answers and its text is valid JSON; otherwise the placeholder with the
\* requested sign, lucky crystal Clear Quartz and lucky numbers 7, 14, 21.
C18_HoroscopeNeverFails ==
    (last.route = "horoscope" /\ last.status # 401)
        => LET source_ok == config.HOROSCOPE_API_KEY /\ last.given[1] = "ok"
               vendor_ok == /\ config.GOOGLE_AI_API_KEY
                            /\ last.given[2] = "ok" /\ last.given[3]
           IN  /\ last.status = 200 /\ last.success = "true"
               /\ last.horoscope = IF config.HOROSCOPE_API_KEY THEN 1 ELSE 0
               /\ source_ok => (last.body = "source" /\ last.llm = 0)
               /\ (~source_ok /\ vendor_ok)
                     => (last.body = "generated" /\ last.llm = 1)
               /\ (~source_ok /\ ~vendor_ok)
                     => /\ last.body = "placeholder"
                        /\ last.data.sign = last.arg
                        /\ last.data.lucky_crystal = "Clear Quartz"
                        /\ last.data.lucky_numbers = <<7, 14, 21>>

C18_Witness ==
    /\ last.route = "horoscope" /\ last.status = 200
    /\ config.HOROSCOPE_API_KEY /\ last.given[1] = "raise"
    /\ ~config.GOOGLE_AI_API_KEY
    /\ last.horoscope = 1 /\ last.llm = 0
    /\ last.body = "placeholder" /\ last.data.sign = "pisces"

\* C14 (as claimed): without a store handle, a collection list or a save
\* that carries a valid token is answered 503.
C14_StoreUnavailable503 ==
    (/\ last.route \in {"collection", "save"} /\ last.auth = "valid" /\ ~db)
        => last.status = 503

\* C22: an authenticated identify is never refused for usage: whatever the
\* caller's stored counter, the vendor is called whenever one is selected
\* for the tier, and a successful response carries as usage_remaining the
\* tier's limit (5, 30, 999, 9999), not reduced by the counter.
C22_NeverRefusedForUsage ==
    (last.route = "identify" /\ last.status # 401) =>
        /\ last.status \in {200, 500, 503}
        /\ SelectProvider(last.tier, "none", config) # "none" => last.llm = 1
        /\ last.status = 200 =>
              <<last.tier, last.usage_remaining>> \in
                  {<<"free", 5>>, <<"premium", 30>>, <<"pro", 999>>,
                   <<"founders", 9999>>}

C22_Witness ==
    /\ last.route = "identify" /\ last.status = 200 /\ last.tier = "free"
    /\ last.usage_inc = 1 /\ usage[last.uid] - last.usage_inc >= 1
    /\ last.usage_remaining = 5

\* C23 (as claimed): no request, whatever the store read failures, changes
\* a stored profile that exists and that the profile model accepts: its
\* tier and stripe_customer_id after the request are those before it.
C23_StoredProfileNeverOverwritten ==
    [][\A u \in Users :
        (profiles[u].exists /\ profiles[u].tier \in SubscriptionTier)
            => profiles'[u] = profiles[u]]_vars

\* C24: a request changes nothing under the document of a user other than
\* the one its token names (profile, usage counter, saved crystals),
\* whatever path identifier or body it carries; a successful save writes
\* the entry under the caller and stamps the caller's id into user_id, also
\* when the body names another user.
C24_OnlyCallersDocuments ==
    [][last' # Idle =>
        /\ \A b \in Users : b # last'.uid =>
              /\ profiles'[b] = profiles[b]
              /\ usage'[b] = usage[b]
              /\ saved'[b] = saved[b]
        /\ (last'.route = "save" /\ last'.status = 200) =>
              /\ saved'[last'.uid][last'.arg].exists
              /\ saved'[last'.uid][last'.arg].user_id = last'.uid]_vars

C24_Witness ==
    /\ last.route = "save" /\ last.status = 200
    /\ last.uid = "u1" /\ last.sent_user_id = "u2"
    /\ saved["u1"][last.arg].user_id = "u1"
    /\ ~saved["u2"][last.arg].exists

\* C25: a request changes a usage counter only if it is an identify whose
\* vendor call succeeded, and then only the caller's, by exactly one; when
\* the store rejects that increment the counter stays and the identify
\* response is the successful one all the same, with the vendor's text.
C25_CountedOncePerIdentification ==
    [][last' # Idle =>
        LET counted == last'.route = "identify" /\ last'.status = 200
        IN  /\ \A u \in Users :
                  usage'[u] = IF counted /\ u = last'.uid /\ last'.fault # "op"
                              THEN usage[u] + 1 ELSE usage[u]
            /\ counted =>
                  /\ last'.llm = 1 /\ last'.success = "true"
                  /\ last'.identified \in {identification(t) : t \in Texts}
            /\ (last'.route = "identify" /\ last'.status # 200) =>
                  last'.status \in {401, 500, 503}]_vars

C25_Witness ==
    /\ last.route = "identify" /\ last.status = 200 /\ last.fault = "op"
    /\ last.usage_inc = 0 /\ usage[last.uid] = 1
    /\ last.success = "true" /\ last.identified.crystal_details.present

\* C26 (as claimed): when a higher-capability vendor (OpenAI or Anthropic)
\* is configured, an identify or guidance request of a founders-tier caller
\* that reaches a vendor is served by gpt-4-turbo-preview or claude-3-opus,
\* never by the model a free-tier caller is served by.
C26_FoundersServedHigherModel ==
    (/\ last.route \in {"identify", "guidance"} /\ last.tier = "founders"
     /\ last.llm = 1
     /\ config.OPENAI_API_KEY \/ config.ANTHROPIC_API_KEY)
        => /\ last.model \in {"gpt-4-turbo-preview", "claude-3-opus-20240229"}
           /\ last.model # ModelFor(SelectProvider("free", "none", config), "free")

(***************************************************************************)
(* SpecLLM: one call of LLMService.generate_response                       *)
(***************************************************************************)
NoResult == [status |-> 0, provider |-> "none", model |-> "none", calls |-> 0]

\* The store and the request log of the unified server, at rest
ServerAtRest ==
    /\ db = FALSE
    /\ profiles = [u \in Users |-> NoDoc]
    /\ saved = [u \in Users |-> [i \in Ids |-> NoEntry]]
    /\ usage = [u \in Users |-> 0]
    /\ savedOk = [u \in Users |-> {}]
    /\ last = Idle

\* Every combination of configured vendors (the other credentials unset)
VendorConfigs ==
    {c \in Config : /\ ~c.FIREBASE_CREDENTIALS
                    /\ ~c.HOROSCOPE_API_KEY /\ ~c.STRIPE_SECRET_KEY
                    /\ ~c.STRIPE_PREMIUM_PRICE_ID /\ ~c.STRIPE_PRO_PRICE_ID}

InitLLM ==
    /\ config \in VendorConfigs
    /\ ServerAtRest
    /\ demo = DemoIdle
    /\ requests = NoRequests
    /\ parsing = ParseIdle
    /\ llm \in [phase : {"call"}, tier : SubscriptionTier,
                provider : LLMProvider \cup {"none", InvalidProvider},
                outcome : VendorOutcomes, result : {NoResult}]

llm_generate ==
    /\ llm.phase = "call"
    /\ llm' = [llm EXCEPT !.phase = "done",
                 !.result = generate_response(llm.tier, llm.provider, config,
                                              llm.outcome)]
    /\ UNCHANGED <<config, db, profiles, saved, usage, savedOk, last, demo, requests, parsing>>

NextLLM == llm_generate

SpecLLM == InitLLM /\ [][NextLLM]_vars

Configured(provider) ==
    CASE provider = "openai" -> config.OPENAI_API_KEY
      [] provider = "anthropic" -> config.ANTHROPIC_API_KEY
      [] provider = "google" -> config.GOOGLE_AI_API_KEY
      [] OTHER -> FALSE

\* C5 (as claimed): with no pinned provider, whenever at least one vendor is
\* configured the call reaches a configured vendor, and it fails with 503
\* only when no vendor is configured.
C5_FallbackToAnyVendor ==
    (llm.phase = "done" /\ llm.provider = "none")
        => /\ (\E p \in LLMProvider : Configured(p))
                => (llm.result.calls = 1 /\ Configured(llm.result.provider))
           /\ llm.result.status = 503 => ~(\E p \in LLMProvider : Configured(p))

\* C6: with no pinned provider, a pro-tier call with Anthropic configured
\* goes to Anthropic and a premium-tier call with OpenAI configured goes to
\* OpenAI, whatever else is configured; and the vendor that is called is
\* always a configured one.
C6_PreferredVendorConfigured ==
    (llm.phase = "done" /\ llm.provider = "none")
        => /\ (llm.tier = "pro" /\ config.ANTHROPIC_API_KEY)
                => (llm.result.provider = "anthropic" /\ llm.result.calls = 1)
           /\ (llm.tier = "premium" /\ config.OPENAI_API_KEY)
                => (llm.result.provider = "openai" /\ llm.result.calls = 1)
           /\ llm.result.calls = 1 => Configured(llm.result.provider)
           /\ llm.result.calls = 0 => llm.result.status = 503

C6_Witness ==
    /\ llm.phase = "done" /\ llm.provider = "none" /\ llm.tier = "pro"
    /\ config.ANTHROPIC_API_KEY /\ config.OPENAI_API_KEY
    /\ config.GOOGLE_AI_API_KEY
    /\ llm.result.provider = "anthropic" /\ llm.result.status = 200

\* C20: generate_response ends in one of three ways: the vendor's text, 503
\* exactly when no provider is pinned and none is selected, or 500 when the
\* vendor exchange fails or the pinned provider is none of the three; it
\* makes at most one vendor request, and none before a 503.
C20_ThreeOutcomesOneRequest ==
    llm.phase = "done"
        => /\ llm.result.status \in {200, 503, 500}
           /\ llm.result.calls <= 1
           /\ llm.result.status = 503
                <=> (llm.provider = "none" /\ llm.result.provider = "none")
           /\ llm.result.status = 503 => llm.result.calls = 0
           /\ llm.result.status = 200
                => (llm.outcome = "ok" /\ llm.result.calls = 1)
           /\ llm.provider \in LLMProvider
                => (/\ llm.result.provider = llm.provider
                    /\ llm.result.status = IF llm.outcome = "ok" THEN 200 ELSE 500)
           /\ llm.provider = InvalidProvider
                => (llm.result.status = 500 /\ llm.result.calls = 0)

C20_Witness ==
    /\ llm.phase = "done" /\ llm.provider = "none" /\ llm.tier = "pro"
    /\ config.ANTHROPIC_API_KEY /\ config.OPENAI_API_KEY
    /\ config.GOOGLE_AI_API_KEY
    /\ llm.outcome = "raise"
    /\ llm.result.provider = "anthropic" /\ llm.result.status = 500
    /\ llm.result.calls = 1

(***************************************************************************)
(* The demo servers' reference tables                                      *)
(***************************************************************************)
\* DEMO_CRYSTALS: name, color and zodiac_compatibility of each entry, in
\* table order.
DEMO_CRYSTALS ==
    <<[name |-> <<"A", "m", "e", "t", "h", "y", "s", "t">>,
       color |-> <<"P", "u", "r", "p", "l", "e">>,
       zodiac_compatibility |->
          {<<"P", "i", "s", "c", "e", "s">>,
           <<"V", "i", "r", "g", "o">>,
           <<"A", "q", "u", "a", "r", "i", "u", "s">>}],
      [name |-> <<"R", "o", "s", "e", " ", "Q", "u", "a", "r", "t", "z">>,
       color |-> <<"P", "i", "n", "k">>,
       zodiac_compatibility |->
          {<<"T", "a", "u", "r", "u", "s">>,
           <<"L", "i", "b", "r", "a">>}],
      [name |-> <<"C", "l", "e", "a", "r", " ", "Q", "u", "a", "r", "t", "z">>,
       color |-> <<"C", "l", "e", "a", "r">>,
       zodiac_compatibility |->
          {<<"A", "l", "l", " ", "s", "i", "g", "n", "s">>}]>>

\* DEMO_HOROSCOPES: the twelve keys with (the first sentence of) their texts
DEMO_HOROSCOPES ==
    <<[key |-> <<"a", "r", "i", "e", "s">>,
       text |-> "Today brings fiery energy perfect for new beginnings."],
      [key |-> <<"t", "a", "u", "r", "u", "s">>,
       text |-> "Venus blesses you with harmony and beauty today."],
      [key |-> <<"g", "e", "m", "i", "n", "i">>,
       text |-> "Mercury enhances your communication skills."],
      [key |-> <<"c", "a", "n", "c", "e", "r">>,
       text |-> "The Moon illuminates your emotional depths."],
      [key |-> <<"l", "e", "o">>,
       text |-> "The Sun radiates through you today."],
      [key |-> <<"v", "i", "r", "g", "o">>,
       text |-> "Earth energy grounds you in practical matters."],
      [key |-> <<"l", "i", "b", "r", "a">>,
       text |-> "Venus brings balance to relationships."],
      [key |-> <<"s", "c", "o", "r", "p", "i", "o">>,
       text |-> "Pluto stirs transformative energies."],
      [key |-> <<"s", "a", "g", "i", "t", "t", "a", "r", "i", "u", "s">>,
       text |-> "Jupiter expands your horizons."],
      [key |-> <<"c", "a", "p", "r", "i", "c", "o", "r", "n">>,
       text |-> "Saturn supports your ambitions."],
      [key |-> <<"a", "q", "u", "a", "r", "i", "u", "s">>,
       text |-> "Uranus sparks innovation."],
      [key |-> <<"p", "i", "s", "c", "e", "s">>,
       text |-> "Neptune enhances your psychic abilities."]>>

\* DEMO_GUIDANCE_RESPONSES: (the opening sentence of) the four canned
\* paragraphs; Python's index 0 is index 1 here.
DEMO_GUIDANCE_RESPONSES ==
    <<"Based on your spiritual profile, I sense you're entering a period of deep transformation.",
      "Your birth chart shows strong water element influence, which resonates beautifully with rose quartz energy.",
      "The current lunar phase supports releasing old patterns.",
      "I notice Scorpio influence in your chart, suggesting you're naturally drawn to transformation work.">>

HoroscopeKeys == {DEMO_HOROSCOPES[k].key : k \in 1..Len(DEMO_HOROSCOPES)}

\* DEMO_HOROSCOPES[sign]
HoroscopeText(sign) ==
    DEMO_HOROSCOPES[CHOOSE k \in 1..Len(DEMO_HOROSCOPES) :
                        DEMO_HOROSCOPES[k].key = sign].text

(***************************************************************************)
(* Handlers of the demo servers                                            *)
(***************************************************************************)
MaxFlip == 3
MaxFragments == 2

AllSigns == <<"A", "l", "l", " ", "s", "i", "g", "n", "s">>

\* get_horoscope's loop without the "All signs" clause.
compatible_crystals_listed(sign) ==
    LET fits(crystal) == title(sign) \in crystal.zodiac_compatibility
        found == SelectSeq(DEMO_CRYSTALS, fits)
    IN  [k \in 1..Len(found) |-> found[k].name]

\* get_horoscope, lines 205-209: the names of the entries, in table order,
\* that list the title-cased sign or "All signs".
compatible_crystals(sign) ==
    LET fits(crystal) ==
            \/ title(sign) \in crystal.zodiac_compatibility
            \/ AllSigns \in crystal.zodiac_compatibility
        found == SelectSeq(DEMO_CRYSTALS, fits)
    IN  [k \in 1..Len(found) |-> found[k].name]

NoDemoResult ==
    [status |-> 0, crystal |-> <<>>, zodiac_compatibility |-> FALSE,
     zodiac_sign |-> <<>>, horoscope |-> "", compatible_crystals |-> <<>>,
     daily_crystal |-> <<>>, guidance |-> <<>>]

\* Demo GET /api/horoscope/{zodiac_sign}; pick is random.choice's draw.
demo_horoscope_response(zodiac_sign, pick) ==
    LET sign == lower(zodiac_sign)
        compatible == compatible_crystals(sign)
    IN  IF sign \notin HoroscopeKeys
        THEN [NoDemoResult EXCEPT !.status = 400]
        ELSE [NoDemoResult EXCEPT
                !.status = 200,
                !.zodiac_sign = title(sign),
                !.horoscope = HoroscopeText(sign),
                !.daily_crystal =
                    IF Len(compatible) > 0
                    THEN compatible[((pick - 1) % Len(compatible)) + 1]
                    ELSE <<"C", "l", "e", "a", "r", " ", "Q", "u", "a", "r", "t", "z">>,
                !.compatible_crystals = compatible]

\* The identify loop without its break: the last matching entry wins.
find_match_last(description_lower) ==
    LET hits == {k \in 1..Len(DEMO_CRYSTALS) :
                    \/ Contains(lower(DEMO_CRYSTALS[k].name), description_lower)
                    \/ Contains(lower(DEMO_CRYSTALS[k].color), description_lower)}
    IN  IF hits = {} THEN DEMO_CRYSTALS[1]
        ELSE DEMO_CRYSTALS[CHOOSE k \in hits : \A j \in hits : j <= k]

\* identify_crystal, lines 124-129: scan DEMO_CRYSTALS from entry k on and
\* stop at the first entry whose name or color is in the description;
\* DEMO_CRYSTALS[0] when the scan finds none.
RECURSIVE scan_crystals(_, _)
scan_crystals(k, description_lower) ==
    IF k > Len(DEMO_CRYSTALS) THEN DEMO_CRYSTALS[1]
    ELSE IF \/ Contains(lower(DEMO_CRYSTALS[k].name), description_lower)
            \/ Contains(lower(DEMO_CRYSTALS[k].color), description_lower)
         THEN DEMO_CRYSTALS[k]
         ELSE scan_crystals(k + 1, description_lower)

find_match(description_lower) == scan_crystals(1, description_lower)

Unknown == <<"u", "n", "k", "n", "o", "w", "n">>

\* request.user_context: JSON null, or an object whose zodiac_sign defaults
\* to "unknown".
UserContexts ==
    {[kind |-> "null", zodiac_sign |-> <<>>]}
    \cup {[kind |-> "object", zodiac_sign |-> z] :
            z \in HoroscopeKeys \cup {Unknown}}

\* Demo POST /api/crystal/identify.  user_context.get on None raises, which
\* the framework answers 500.
demo_identify_response(description, user_context) ==
    LET description_lower == lower(description)
        best_match == find_match(description_lower)
    IN  IF user_context.kind = "null"
        THEN [NoDemoResult EXCEPT !.status = 500]
        ELSE [NoDemoResult EXCEPT
                !.status = 200,
                !.crystal = best_match.name,
                !.zodiac_compatibility =
                    title(user_context.zodiac_sign)
                        \in best_match.zodiac_compatibility]

\* The tips appended to the bucket paragraphs
ANXIETY_TIP == " For anxiety relief, try amethyst or rose quartz in a calming meditation."
ROSE_QUARTZ_TIP == " Rose quartz is your ally in matters of the heart."
CLEAR_QUARTZ_TIP == " Clear quartz will amplify your transformational work."

\* The keyword chain with the love bucket tested before the stress bucket.
select_guidance_love_first(query_lower, pick) ==
    IF \/ Contains(<<"l", "o", "v", "e">>, query_lower)
       \/ Contains(<<"r", "e", "l", "a", "t", "i", "o", "n", "s", "h", "i", "p">>,
                   query_lower)
    THEN <<DEMO_GUIDANCE_RESPONSES[2], ROSE_QUARTZ_TIP>>
    ELSE IF \/ Contains(<<"a", "n", "x", "i", "o", "u", "s">>, query_lower)
            \/ Contains(<<"s", "t", "r", "e", "s", "s">>, query_lower)
    THEN <<DEMO_GUIDANCE_RESPONSES[1], ANXIETY_TIP>>
    ELSE IF \/ Contains(<<"t", "r", "a", "n", "s", "f", "o", "r", "m", "a", "t",
                          "i", "o", "n">>, query_lower)
            \/ Contains(<<"c", "h", "a", "n", "g", "e">>, query_lower)
    THEN <<DEMO_GUIDANCE_RESPONSES[3], CLEAR_QUARTZ_TIP>>
    ELSE <<DEMO_GUIDANCE_RESPONSES[pick]>>

\* get_personalized_guidance, lines 162-172: the if/elif chain over the
\* lower-cased query; the guidance is the paragraph followed by its tip, or
\* random.choice's paragraph alone (pick is the draw).
select_guidance(query_lower, pick) ==
    IF \/ Contains(<<"a", "n", "x", "i", "o", "u", "s">>, query_lower)
       \/ Contains(<<"s", "t", "r", "e", "s", "s">>, query_lower)
    THEN <<DEMO_GUIDANCE_RESPONSES[1], ANXIETY_TIP>>
    ELSE IF \/ Contains(<<"l", "o", "v", "e">>, query_lower)
            \/ Contains(<<"r", "e", "l", "a", "t", "i", "o", "n", "s", "h", "i", "p">>,
                        query_lower)
    THEN <<DEMO_GUIDANCE_RESPONSES[2], ROSE_QUARTZ_TIP>>
    ELSE IF \/ Contains(<<"t", "r", "a", "n", "s", "f", "o", "r", "m", "a", "t",
                          "i", "o", "n">>, query_lower)
            \/ Contains(<<"c", "h", "a", "n", "g", "e">>, query_lower)
    THEN <<DEMO_GUIDANCE_RESPONSES[3], CLEAR_QUARTZ_TIP>>
    ELSE <<DEMO_GUIDANCE_RESPONSES[pick]>>

\* Demo POST /api/guidance/personalized.  As in identify, user_context.get on
\* None raises after the guidance is chosen, which the framework answers 500.
demo_guidance_response(query, user_context, pick) ==
    LET query_lower == lower(query)
        guidance == select_guidance(query_lower, pick)
    IN  IF user_context.kind = "null"
        THEN [NoDemoResult EXCEPT !.status = 500]
        ELSE [NoDemoResult EXCEPT !.status = 200, !.guidance = guidance]

(***************************************************************************)
(* SpecDemo: one request to a demo server                                  *)
(***************************************************************************)
Min(a, b) == IF a < b THEN a ELSE b

\* A sign key in several letter cases
CaseVariants(w) ==
    {lower(w), upper(w), title(w)}
    \cup {[k \in 1..Len(w) |-> IF k = j THEN upper_char(w[k]) ELSE w[k]] :
            j \in 1..Min(Len(w), MaxFlip)}
    \cup {[k \in 1..Len(w) |-> IF k > j THEN upper_char(w[k]) ELSE w[k]] :
            j \in 1..Min(Len(w), MaxFlip)}

\* Path parameters that are no sign key in any letter case
OtherKeys ==
    {<<"o", "p", "h", "i", "u", "c", "h", "u", "s">>,
     <<"a", "r", "i", "e", "s", "s">>,
     <<"a", "r", "i", "e">>,
     <<"p", "i", "s", "c", "e", "s", " ">>,
     <<"a", "l", "l", " ", "s", "i", "g", "n", "s">>,
     <<"c", "l", "e", "a", "r", " ", "q", "u", "a", "r", "t", "z">>}

SignKeyInputs == UNION {CaseVariants(key) : key \in HoroscopeKeys} \cup OtherKeys

\* Pieces descriptions are put together from
Fragments ==
    {<<"a", "m", "e", "t", "h", "y", "s", "t">>,
     <<"p", "u", "r", "p", "l", "e">>,
     <<"r", "o", "s", "e", " ", "q", "u", "a", "r", "t", "z">>,
     <<"p", "i", "n", "k">>,
     <<"c", "l", "e", "a", "r", " ", "q", "u", "a", "r", "t", "z">>,
     <<"c", "l", "e", "a", "r">>,
     <<"q", "u", "a", "r", "t", "z">>,
     <<"r", "o", "s", "e">>,
     <<" ">>,
     <<"a", " ", "r", "a", "w", " ", "s", "t", "o", "n", "e">>}

RECURSIVE Join(_)
Join(pieces) == IF pieces = <<>> THEN <<>> ELSE Head(pieces) \o Join(Tail(pieces))

Composed == {Join(ps) : ps \in UNION {[1..n -> Fragments] : n \in 0..MaxFragments}}

Descriptions == UNION {{d, upper(d), title(d)} : d \in Composed}

\* Pieces queries are put together from: the six keywords, words that
\* contain one ("glove", "exchange"), a near miss ("anxiety") and filler
QueryFragments ==
    {<<"a", "n", "x", "i", "o", "u", "s">>,
     <<"s", "t", "r", "e", "s", "s">>,
     <<"l", "o", "v", "e">>,
     <<"r", "e", "l", "a", "t", "i", "o", "n", "s", "h", "i", "p">>,
     <<"t", "r", "a", "n", "s", "f", "o", "r", "m", "a", "t", "i", "o", "n">>,
     <<"c", "h", "a", "n", "g", "e">>,
     <<"g", "l", "o", "v", "e">>,
     <<"e", "x", "c", "h", "a", "n", "g", "e">>,
     <<"a", "n", "x", "i", "e", "t", "y">>,
     <<"s", "t", "r", "e", "s">>,
     <<" ">>,
     <<"h", "e", "l", "p", " ", "m", "e">>}

ComposedQueries ==
    {Join(ps) : ps \in UNION {[1..n -> QueryFragments] : n \in 0..MaxFragments}}

Queries == UNION {{q, upper(q), title(q)} : q \in ComposedQueries}

InitDemo ==
    /\ config \in {c \in VendorConfigs : ~c.OPENAI_API_KEY /\ ~c.ANTHROPIC_API_KEY
                                         /\ ~c.GOOGLE_AI_API_KEY}
    /\ ServerAtRest
    /\ llm = LLMIdle
    /\ requests = NoRequests
    /\ parsing = ParseIdle
    /\ \/ demo \in [phase : {"request"}, route : {"horoscope"},
                    input : SignKeyInputs,
                    user_context : {[kind |-> "object", zodiac_sign |-> Unknown]},
                    result : {NoDemoResult}]
       \/ demo \in [phase : {"request"}, route : {"identify"},
                    input : Descriptions, user_context : UserContexts,
                    result : {NoDemoResult}]
       \/ demo \in [phase : {"request"}, route : {"guidance"},
                    input : Queries,
                    user_context : {[kind |-> "null", zodiac_sign |-> <<>>],
                                    [kind |-> "object", zodiac_sign |-> Unknown]},
                    result : {NoDemoResult}]

demo_get_horoscope ==
    /\ demo.phase = "request" /\ demo.route = "horoscope"
    /\ \E pick \in 1..Len(DEMO_CRYSTALS) :
          demo' = [demo EXCEPT !.phase = "done",
                     !.result = demo_horoscope_response(demo.input, pick)]
    /\ UNCHANGED <<config, db, profiles, saved, usage, savedOk, last, llm, requests, parsing>>

demo_identify_crystal ==
    /\ demo.phase = "request" /\ demo.route = "identify"
    /\ demo' = [demo EXCEPT !.phase = "done",
                  !.result = demo_identify_response(demo.input, demo.user_context)]
    /\ UNCHANGED <<config, db, profiles, saved, usage, savedOk, last, llm, requests, parsing>>

demo_get_personalized_guidance ==
    /\ demo.phase = "request" /\ demo.route = "guidance"
    /\ \E pick \in 1..Len(DEMO_GUIDANCE_RESPONSES) :
          demo' = [demo EXCEPT !.phase = "done",
                     !.result = demo_guidance_response(demo.input,
                                                       demo.user_context, pick)]
    /\ UNCHANGED <<config, db, profiles, saved, usage, savedOk, last, llm, requests, parsing>>

NextDemo ==
    \/ demo_get_horoscope
    \/ demo_identify_crystal
    \/ demo_get_personalized_guidance

SpecDemo == InitDemo /\ [][NextDemo]_vars

(***************************************************************************)
(* Properties of the demo servers (SpecDemo)                               *)
(***************************************************************************)
\* The same text up to letter case, letter by letter
SameIgnoringCase(a, b) ==
    /\ Len(a) = Len(b)
    /\ \A k \in 1..Len(a) :
          \/ a[k] = b[k]
          \/ \E j \in 1..Len(LowerCase) : {a[k], b[k]} = {LowerCase[j], UpperCase[j]}

\* word occurs in text, in any letter case
Mentions(text, word) ==
    \E k \in 0..(Len(text) - Len(word)) :
        SameIgnoringCase(SubSeq(text, k + 1, k + Len(word)), word)

\* The table entries whose name or color the description mentions
MentionedEntries(description) ==
    {k \in 1..Len(DEMO_CRYSTALS) :
        \/ Mentions(description, DEMO_CRYSTALS[k].name)
        \/ Mentions(description, DEMO_CRYSTALS[k].color)}

\* C8: the demo horoscope route answers each of the twelve sign keys, in any
\* letter case, with the key's non-empty text and a non-empty
\* compatible_crystals list from which daily_crystal is drawn; every other
\* key is answered 400.
C8_DemoHoroscopeLookup ==
    (demo.phase = "done" /\ demo.route = "horoscope")
        => IF \E key \in HoroscopeKeys : SameIgnoringCase(demo.input, key)
           THEN /\ demo.result.status = 200
                /\ demo.result.horoscope # ""
                /\ \E k \in 1..Len(DEMO_HOROSCOPES) :
                      /\ SameIgnoringCase(demo.input, DEMO_HOROSCOPES[k].key)
                      /\ demo.result.horoscope = DEMO_HOROSCOPES[k].text
                /\ Len(demo.result.compatible_crystals) > 0
                /\ \E k \in 1..Len(demo.result.compatible_crystals) :
                      demo.result.daily_crystal = demo.result.compatible_crystals[k]
           ELSE demo.result.status = 400

C8_Witness ==
    /\ demo.phase = "done" /\ demo.route = "horoscope"
    /\ demo.input # lower(demo.input)
    /\ demo.result.status = 200
    /\ Len(demo.result.compatible_crystals) = 2
    /\ demo.result.daily_crystal = DEMO_CRYSTALS[1].name

\* C10 (as claimed): identify returns every entry whose name or color the
\* description contains, and the first table entry when it contains none.
C10_EveryMentionedEntryReturned ==
    (demo.phase = "done" /\ demo.route = "identify" /\ demo.result.status = 200)
        => /\ \A k \in MentionedEntries(demo.input) :
                 demo.result.crystal = DEMO_CRYSTALS[k].name
           /\ MentionedEntries(demo.input) = {}
                 => demo.result.crystal = DEMO_CRYSTALS[1].name

\* C10 (amended): identify returns the first entry, in table order, whose
\* name or color the description contains in any letter case, and the first
\* table entry when it contains none; the crystal is a function of the
\* description alone.
C10_FirstMentionedEntryReturned ==
    (demo.phase = "done" /\ demo.route = "identify" /\ demo.result.status = 200)
        => LET hits == MentionedEntries(demo.input) IN
           demo.result.crystal =
              IF hits = {} THEN DEMO_CRYSTALS[1].name
              ELSE DEMO_CRYSTALS[CHOOSE k \in hits : \A j \in hits : k <= j].name

C10_Witness ==
    /\ demo.phase = "done" /\ demo.route = "identify"
    /\ demo.result.status = 200
    /\ MentionedEntries(demo.input) = {2, 3}
    /\ demo.input # lower(demo.input)
    /\ demo.result.crystal = DEMO_CRYSTALS[2].name

\* The keywords of the three guidance buckets, in the order of the chain
StressWords == {<<"a", "n", "x", "i", "o", "u", "s">>, <<"s", "t", "r", "e", "s", "s">>}
LoveWords ==
    {<<"l", "o", "v", "e">>,
     <<"r", "e", "l", "a", "t", "i", "o", "n", "s", "h", "i", "p">>}
ChangeWords ==
    {<<"t", "r", "a", "n", "s", "f", "o", "r", "m", "a", "t", "i", "o", "n">>,
     <<"c", "h", "a", "n", "g", "e">>}

MentionsAny(text, words) == \E w \in words : Mentions(text, w)

C27_CompatibilityAgrees ==
    (/\ demo.phase = "done" /\ demo.route = "identify" /\ demo.result.status = 200
     /\ demo.user_context.zodiac_sign \in HoroscopeKeys
     /\ MentionedEntries(demo.input) # {})
        => LET listed ==
                   demo_horoscope_response(demo.user_context.zodiac_sign, 1)
                       .compatible_crystals
           IN  demo.result.zodiac_compatibility
                   <=> \E k \in 1..Len(listed) : listed[k] = demo.result.crystal

(***************************************************************************)
(* SpecUsage: identify requests of the unified server, interleaved.  A     *)
(* handler gives up control at each await: after the dependency, while the *)
(* vendor exchange is pending, and around the usage write.  All requests   *)
(* fall on one UTC day.                                                    *)
(***************************************************************************)
MaxRequests == 3

RequestIds == 1..MaxRequests

NotStarted ==
    [pc |-> "idle", uid |-> "", tier |-> "", seen |-> 0, status |-> 0,
     accepted |-> FALSE]

InitUsage ==
    /\ config \in {d \in Deployments : d.FIREBASE_CREDENTIALS}
    /\ db = FirebaseService_init(config)
    /\ profiles \in [Users -> UNION {StoredProfiles(u) : u \in Users}]
    /\ \A u \in Users : profiles[u] \in StoredProfiles(u)
    /\ \E u \in Users : profiles[u].exists /\ profiles[u].tier \in {"free", "pro"}
    /\ \A u \in Users : profiles[u].exists => profiles[u].tier \in {"free", "pro"}
    /\ saved = [u \in Users |-> [i \in Ids |-> NoEntry]]
    /\ usage = [u \in Users |-> 0]
    /\ savedOk = [u \in Users |-> {}]
    /\ last = Idle
    /\ llm = LLMIdle
    /\ demo = DemoIdle
    /\ requests = [r \in RequestIds |-> NotStarted]
    /\ parsing = ParseIdle

\* identify_crystal up to its first await: the dependency, the prompt and
\* generate_response's provider selection.  Requests are numbered in the
\* order they arrive.
identify_accept ==
    /\ \E r \in RequestIds, uid \in Users :
        /\ requests[r].pc = "idle"
        /\ \A q \in RequestIds : q < r => requests[q].pc # "idle"
        /\ LET a == get_current_user([kind |-> "valid", uid |-> uid], "none")
               rq == [requests[r] EXCEPT !.uid = uid]
           IN  /\ profiles' = a.profiles
               /\ requests' = [requests EXCEPT ![r] =
                     IF a.status # 200
                     THEN [rq EXCEPT !.pc = "done", !.status = 401]
                     ELSE IF SelectProvider(a.user.tier, "none", config) = "none"
                     THEN [rq EXCEPT !.pc = "done", !.status = 503,
                                     !.tier = a.user.tier]
                     ELSE [rq EXCEPT !.pc = "await_vendor", !.tier = a.user.tier,
                                     !.seen = usage[uid]]]
    /\ UNCHANGED <<config, db, saved, usage, savedOk, last, llm, demo, parsing>>

\* The vendor exchange completes: text, or an error that becomes 500.
identify_vendor_returns ==
    /\ \E r \in RequestIds, outcome \in VendorOutcomes :
        /\ requests[r].pc = "await_vendor"
        /\ LET g == generate_response(requests[r].tier, "none", config, outcome)
           IN  requests' = [requests EXCEPT ![r] =
                     IF g.status = 200 THEN [@ EXCEPT !.pc = "update_usage"]
                     ELSE [@ EXCEPT !.pc = "done", !.status = g.status]]
    /\ UNCHANGED <<config, db, profiles, saved, usage, savedOk, last, llm, demo,
                   parsing>>

\* update_user_usage and the response: the store applies the increment, or
\* rejects the write (logged and swallowed; the response is a success
\* either way).
identify_update_usage ==
    /\ \E r \in RequestIds, fault \in {"none", "op"} :
        /\ requests[r].pc = "update_usage"
        /\ usage' =
              IF ~db \/ fault = "op" THEN usage
              ELSE [usage EXCEPT ![requests[r].uid] =
                        Increment(usage[requests[r].uid], requests[r].seen)]
        /\ requests' = [requests EXCEPT ![r] =
                          [@ EXCEPT !.pc = "done", !.status = 200,
                                    !.accepted = db /\ fault = "none"]]
    /\ UNCHANGED <<config, db, profiles, saved, savedOk, last, llm, demo, parsing>>

NextUsage ==
    \/ identify_accept
    \/ identify_vendor_returns
    \/ identify_update_usage

SpecUsage == InitUsage /\ [][NextUsage]_vars

\* The requests of user u whose usage increment the store accepted
Accepted(u) == {r \in RequestIds : requests[r].accepted /\ requests[r].uid = u}

\* C13: under every interleaving of identify requests, a user's counter for
\* the day equals the number of that user's requests whose increment the
\* store accepted; requests are held back by nothing but their own awaits.
C13_NoLostIncrement ==
    \A u \in Users : usage[u] = Cardinality(Accepted(u))

C13_Witness ==
    \E u \in Users :
        /\ usage[u] = 2
        /\ Cardinality({r \in Accepted(u) : requests[r].seen = 0}) = 2
        /\ \E r \in RequestIds :
              requests[r].uid = u /\ requests[r].pc = "update_usage"

(***************************************************************************)
(* SpecParse: identify_crystal's parsing step and response, applied to one *)
(* vendor text                                                             *)
(***************************************************************************)
MaxLines == 2

\* A line of n letters without a label
LongLine(n) == [k \in 1..n |-> "x"]

\* Lines vendor texts are put together from: empty, unlabelled, each label in
\* some letter case with and without a value, a label after a blank, the
\* default name itself, and lines just under and at the length limit
VendorLines ==
    {<<>>,
     <<"A", "m", "e", "t", "h", "y", "s", "t">>,
     <<"N", "a", "m", "e", ":", " ", "A", "m", "e", "t", "h", "y", "s", "t">>,
     <<"n", "a", "m", "e", ":">>,
     <<"C", "R", "Y", "S", "T", "A", "L", " ", "N", "A", "M", "E", ":", " ", "R", "o", "s", "e", " ", "Q", "u", "a", "r", "t", "z", " ">>,
     <<"D", "e", "s", "c", "r", "i", "p", "t", "i", "o", "n", ":", " ", "A", " ", "p", "u", "r", "p", "l", "e", " ", "s", "t", "o", "n", "e">>,
     <<"C", "h", "a", "k", "r", "a", "s", ":", " ", "c", "r", "o", "w", "n", ",", " ", "t", "h", "i", "r", "d", " ", "e", "y", "e">>,
     <<"M", "e", "t", "a", "p", "h", "y", "s", "i", "c", "a", "l", " ", "P", "r", "o", "p", "e", "r", "t", "i", "e", "s", ":">>,
     <<"H", "e", "a", "l", "i", "n", "g", " ", "a", "p", "p", "l", "i", "c", "a", "t", "i", "o", "n", "s", ":", " ", "c", "a", "l", "m">>,
     <<" ", "N", "a", "m", "e", ":", " ", "C", "i", "t", "r", "i", "n", "e">>,
     <<"N", "a", "m", "e", ":", " ", "U", "n", "k", "n", "o", "w", "n", " ", "C", "r", "y", "s", "t", "a", "l">>,
     <<"U", "n", "k", "n", "o", "w", "n", " ", "C", "r", "y", "s", "t", "a", "l">>,
     LongLine(NAME_LIMIT - 1),
     LongLine(NAME_LIMIT)}

RECURSIVE JoinLines(_)
JoinLines(ls) ==
    IF Len(ls) = 1 THEN ls[1] ELSE ls[1] \o <<NL>> \o JoinLines(Tail(ls))

VendorTexts ==
    {Str(JoinLines(ls)) :
        ls \in UNION {[1..n -> VendorLines] : n \in 1..MaxLines}}
    \cup {NoneText}

InitParse ==
    /\ config \in VendorConfigs
    /\ ServerAtRest
    /\ llm = LLMIdle
    /\ demo = DemoIdle
    /\ requests = NoRequests
    /\ parsing \in [phase : {"parse"}, text : VendorTexts,
                    result : {NoIdentification}]

identify_parse ==
    /\ parsing.phase = "parse"
    /\ parsing' = [parsing EXCEPT !.phase = "done",
                     !.result = identification(parsing.text)]
    /\ UNCHANGED <<config, db, profiles, saved, usage, savedOk, last, llm, demo,
                   requests>>

NextParse == identify_parse

SpecParse == InitParse /\ [][NextParse]_vars

\* C19: whatever the vendor's text, the parsing step does not fail the
\* request, and the response carries that text unchanged in exactly one
\* field: identification_raw together with crystal_details, or
\* identification without them.
C19_RawTextPreserved ==
    parsing.phase = "done"
        => /\ parsing.result.status = 200
           /\ IF parsing.result.crystal_details.present
              THEN /\ parsing.result.identification_raw = parsing.text
                   /\ parsing.result.identification = Absent
              ELSE /\ parsing.result.identification = parsing.text
                   /\ parsing.result.identification_raw = Absent

C19_Witness ==
    /\ parsing.phase = "done" /\ parsing.text.kind = "str"
    /\ Len(parsing.text.chars) > NAME_LIMIT
    /\ parsing.result.crystal_details.present
    /\ parsing.result.crystal_details.name = <<>>
    /\ parsing.result.identification_raw = parsing.text

(***************************************************************************)
(* SpecSave: saves of the unified server, interleaved.  A save gives up    *)
(* control after the dependency and while asyncio.to_thread runs the       *)
(* document set(); the store applies each set() as one operation.          *)
(***************************************************************************)
MaxSaves == 2

SaveIds == 1..MaxSaves

\* Bodies that differ in every field for one identifier, and one for another
ConcurrentBodies ==
    {SaveBody("c1", "Amethyst", "Purple", "none", "none"),
     SaveBody("c1", "Rose Quartz", "none", "a gift", "none"),
     SaveBody("c1", "Amethyst", "none", "none", "u2"),
     SaveBody("c2", "Clear Quartz", "Clear", "none", "none")}

NotSaving == [pc |-> "idle", uid |-> "", status |-> 0, document |-> NoEntry]

\* The collections before the saves: u1 already holds an entry c2
InitialCollection ==
    [u \in Users |-> [i \in Ids |->
        IF u = "u1" /\ i = "c2"
        THEN data_to_save("u1", SaveBody("c2", "Citrine", "Yellow", "old", "none"))
        ELSE NoEntry]]

InitSave ==
    /\ config \in {d \in Deployments : d.FIREBASE_CREDENTIALS /\ d.STRIPE_SECRET_KEY}
    /\ db = FirebaseService_init(config)
    /\ profiles = [u \in Users |-> DefaultProfile(u)]
    /\ saved = InitialCollection
    /\ usage = [u \in Users |-> 0]
    /\ savedOk = [u \in Users |-> {}]
    /\ last = Idle
    /\ llm = LLMIdle
    /\ demo = DemoIdle
    /\ parsing = ParseIdle
    /\ requests = [r \in SaveIds |-> NotSaving]

\* save_crystal_to_collection up to asyncio.to_thread: the dependency, the
\* store check and data_to_save.  Requests are numbered as they arrive.
save_accept ==
    /\ \E r \in SaveIds, uid \in Users, request \in ConcurrentBodies :
        /\ requests[r].pc = "idle"
        /\ \A q \in SaveIds : q < r => requests[q].pc # "idle"
        /\ LET a == get_current_user([kind |-> "valid", uid |-> uid], "none")
               rq == [requests[r] EXCEPT !.uid = uid]
           IN  /\ profiles' = a.profiles
               /\ requests' = [requests EXCEPT ![r] =
                     IF a.status # 200
                     THEN [rq EXCEPT !.pc = "done", !.status = 401]
                     ELSE IF ~db
                     THEN [rq EXCEPT !.pc = "done", !.status = 503]
                     ELSE [rq EXCEPT !.pc = "to_thread",
                                     !.document = data_to_save(a.user.id, request)]]
    /\ UNCHANGED <<config, db, saved, usage, savedOk, last, llm, demo, parsing>>

\* The worker thread's crystal_doc_ref.set(data_to_save): applied by the
\* store, or raising.
save_set ==
    /\ \E r \in SaveIds, fault \in {"none", "op"} :
        /\ requests[r].pc = "to_thread"
        /\ IF fault = "op"
           THEN /\ requests' = [requests EXCEPT ![r] =
                                  [@ EXCEPT !.pc = "raised"]]
                /\ UNCHANGED saved
           ELSE /\ saved' = [saved EXCEPT
                    ![requests[r].uid][requests[r].document.identification_id] =
                        document_set(@, requests[r].document)]
                /\ requests' = [requests EXCEPT ![r] =
                                  [@ EXCEPT !.pc = "written"]]
    /\ UNCHANGED <<config, db, profiles, usage, savedOk, last, llm, demo, parsing>>

\* Back on the event loop: the success body, or 500 from the except branch.
save_respond ==
    /\ \E r \in SaveIds :
        /\ requests[r].pc \in {"written", "raised"}
        /\ requests' = [requests EXCEPT ![r] =
              [@ EXCEPT !.pc = "done",
                        !.status = IF requests[r].pc = "written" THEN 200 ELSE 500]]
    /\ UNCHANGED <<config, db, profiles, saved, usage, savedOk, last, llm, demo,
                   parsing>>

NextSave ==
    \/ save_accept
    \/ save_set
    \/ save_respond

SpecSave == InitSave /\ [][NextSave]_vars

\* The saves of user u for identifier i whose set() the store has applied
Written(u, i) ==
    {r \in SaveIds :
        /\ requests[r].uid = u /\ requests[r].document.identification_id = i
        /\ requests[r].pc = "written" \/ requests[r].status = 200}

\* C21: under every interleaving of saves, an identifier written by one or
\* more saves of a user holds exactly the complete document of one of those
\* saves, and every entry no save has written is as it was.
C21_LastWriteWinsWhole ==
    \A u \in Users : \A i \in Ids :
        IF Written(u, i) = {} THEN saved[u][i] = InitialCollection[u][i]
        ELSE \E r \in Written(u, i) : saved[u][i] = requests[r].document

C21_Witness ==
    /\ \A r \in SaveIds : requests[r].status = 200 /\ requests[r].uid = "u1"
    /\ \A r \in SaveIds : requests[r].document.identification_id = "c1"
    /\ requests[1].document # requests[2].document
    /\ requests[1].document.main_color # "none"
    /\ requests[2].document.user_notes # "none"
    /\ saved["u1"]["c1"] = requests[1].document
    /\ saved["u1"]["c2"] = InitialCollection["u1"]["c2"]

====
